---- MODULE Spec2Model ----
(***************************************************************************)
(* ivana: JSON-over-HTTP CRUD backend (venues/offices, rooms, appointments)*)
(* over a MongoDB database, src/app/web/main.go.  The file holds two       *)
(* revisions of package main: the "venue" revision (lines 1-700: venues,   *)
(* rooms, appointments) and the "office" revision (lines 702-1198:         *)
(* offices, rooms).  The model runs one of them, chosen in Init.           *)
(*                                                                         *)
(* Strings that the code parses (path identifiers) are sequences of        *)
(* one-character strings; documents are functions from the keys the bson   *)
(* marshaller writes to values; request bodies are JSON objects, functions *)
(* from JSON keys to tagged values.                                        *)
(***************************************************************************)
EXTENDS Integers, Sequences, FiniteSets, TLC

VARIABLES
    variant,    \* which revision of package main is running: "venue" | "office"
    db,         \* the database "ivana": collection name -> sequence of documents
    nextId,     \* counter behind bson.NewObjectId()
    now,        \* the last instant time.Now() returned
    serving,    \* http.ListenAndServe has not returned
    req,        \* the request served last
    written,    \* what the last request wrote to its http.ResponseWriter
    storeOps,   \* the store operations the last request issued, in order
    retried,    \* the request served last was the client's retry of the one before it
    inflight,   \* the update requests being served side by side, one per goroutine
    writes      \* the goroutines whose UpdateId succeeded, in the order of the writes

vars == <<variant, db, nextId, now, serving, req, written, storeOps, retried, inflight, writes>>

---------------------------------------------------------------------------
(* Bounds of the model *)

\* identifiers bson.NewObjectId() hands out in one run
MaxId == 2
\* months of the calendar, counted from January 2024
MaxMonths == 3
\* clock ticks in a day; one tick stands for the clock's resolution
TicksPerDay == 2

---------------------------------------------------------------------------
(* Errors, lines 41-46 *)

ErrBadRequest == [status |-> 400, id |-> "bad_request"]
ErrNotAcceptable == [status |-> 406, id |-> "not_acceptable"]
ErrUnsupportedMediaType == [status |-> 415, id |-> "unsupported_media_type"]
ErrInternalServer == [status |-> 500, id |-> "internal_server_error"]

\* WriteError appends one error response to the response writer
WriteError(w, err) == Append(w, [status |-> err.status, error |-> err.id])

\* WriteSuccess appends one success response carrying data
WriteSuccess(w, httpStatus, data) == Append(w, [status |-> httpStatus, data |-> data])

StatusOK == 200
StatusCreated == 201
StatusAccepted == 202

ApiJson == "application/vnd.api+json"

---------------------------------------------------------------------------
(* Time: instants are ticks since 2024-01-01T00:00 local time; the zero    *)
(* time.Time lies before every instant of the calendar.                    *)

ZeroTime == 0 - 1

IsLeap(y) == (y % 4 = 0 /\ y % 100 # 0) \/ y % 400 = 0

DaysIn(y, m) ==
    IF m = 2 THEN (IF IsLeap(y) THEN 29 ELSE 28)
    ELSE IF m \in {4, 6, 9, 11} THEN 30 ELSE 31

\* first tick of the k-th month counted from January 2024 (k = 0)
RECURSIVE MonthStart(_)
MonthStart(k) ==
    IF k = 0 THEN 0
    ELSE MonthStart(k - 1) + DaysIn(2024 + ((k - 1) \div 12), ((k - 1) % 12) + 1) * TicksPerDay

MonthOf(t) == CHOOSE k \in 0..MaxMonths : MonthStart(k) <= t /\ t < MonthStart(k + 1)

\* now.BeginningOfMonth(): time.Date(y, m, 1, 0, 0, 0, 0, loc)
BeginningOfMonth(t) == MonthStart(MonthOf(t))

\* now.EndOfMonth(): BeginningOfMonth().AddDate(0, 1, 0).Add(-time.Nanosecond)
EndOfMonth(t) == MonthStart(MonthOf(t) + 1) - 1

\* the last instant of the calendar
Horizon == MonthStart(MaxMonths) - 1

\* the week of an instant, Sunday to Saturday; 2024-01-01 is a Monday
Weekday(t) == ((t \div TicksPerDay) + 1) % 7
BeginningOfWeek(t) == ((t \div TicksPerDay) - Weekday(t)) * TicksPerDay
EndOfWeek(t) == BeginningOfWeek(t) + 7 * TicksPerDay - 1

---------------------------------------------------------------------------
(* Identifiers: bson.ObjectId, 12 bytes written as 24 hex characters *)

IdHexLen == 24

HexChars == {"0", "1", "2", "3", "4", "5", "6", "7", "8", "9",
             "a", "b", "c", "d", "e", "f", "A", "B", "C", "D", "E", "F"}

Lower(c) ==
    CASE c = "A" -> "a" [] c = "B" -> "b" [] c = "C" -> "c"
      [] c = "D" -> "d" [] c = "E" -> "e" [] c = "F" -> "f"
      [] OTHER -> c

\* bson.IsObjectIdHex: hex.DecodeString succeeds and yields 12 bytes
IsObjectIdHex(s) == Len(s) = IdHexLen /\ \A i \in 1..Len(s) : s[i] \in HexChars

\* bson.ObjectIdHex(s) of a well-formed s: the bytes, written in lower case
\* (it panics on any other s; the callers below test IsObjectIdHex first)
ObjectIdHex(s) == [i \in 1..Len(s) |-> Lower(s[i])]

DigitChar(n) == <<"1", "2", "3", "4", "5", "6", "7", "8", "9">>[n]

\* variant of NewObjectId that returns the same identifier at every call
NewObjectIdFixed(n) == [i \in 1..IdHexLen |-> IF i = IdHexLen THEN DigitChar(1) ELSE "0"]

\* the n-th identifier bson.NewObjectId() returns: fresh at every call
NewObjectId(n) == [i \in 1..IdHexLen |-> IF i = IdHexLen THEN DigitChar(n) ELSE "0"]

\* the empty bson.ObjectId (the zero value of the Id field)
NoId == <<>>

---------------------------------------------------------------------------
(* Go strings are sequences of characters; "" is the empty sequence. *)

EmptyString == <<>>

\* strconv.ParseBool: the value, and whether the text was a boolean
ParseBool(s) ==
    IF s \in {<<"1">>, <<"t">>, <<"T">>, <<"T","R","U","E">>, <<"t","r","u","e">>, <<"T","r","u","e">>}
    THEN [val |-> TRUE, err |-> FALSE]
    ELSE IF s \in {<<"0">>, <<"f">>, <<"F">>, <<"F","A","L","S","E">>, <<"f","a","l","s","e">>,
                   <<"F","a","l","s","e">>}
    THEN [val |-> FALSE, err |-> FALSE]
    ELSE [val |-> FALSE, err |-> TRUE]

---------------------------------------------------------------------------
(* The record types.  One entry per Go field: its name, the key            *)
(* encoding/json reads and writes (the json tag, or the field name when    *)
(* the tag does not parse), the key mgo's bson writes (the bson tag, or    *)
(* the lower-cased field name when there is no bson tag), and its kind.    *)

Field(go, json, bson, kind) == [go |-> go, json |-> json, bson |-> bson, kind |-> kind]

Venue == <<
    Field("Id", "id", "_id", "objectid"),
    Field("Name", "name", "name", "string"),
    Field("Rooms", "rooms", "rooms", "rooms"),
    Field("CreatedAt", "created_at", "createdat", "time"),
    Field("UpdatedAt", "updated_at", "updatedat", "time") >>

\* Room of the venue revision
Room == <<
    Field("Id", "id", "_id", "objectid"),
    Field("Name", "name", "name", "string"),
    Field("VenueId", "venue_id", "venueid", "string"),
    Field("Capacity", "capacity", "capacity", "string"),
    Field("CreatedAt", "created_at", "createdat", "time"),
    Field("UpdatedAt", "updated_at", "updatedat", "time") >>

Appointment == <<
    Field("Id", "id", "_id", "objectid"),
    Field("AppointmentName", "appointment_name", "appointmentname", "string"),
    Field("RoomId", "room_id", "roomid", "string"),
    Field("AppointmentDesc", "appointment_description", "appointmentdesc", "string"),
    Field("GuestIds", "guest_ids", "guestids", "strings"),
    Field("Owner", "owner", "owner", "bool"),
    Field("StartTime", "start_time", "starttime", "time"),
    Field("EndTime", "end_time", "endtime", "time"),
    Field("CreatedAt", "created_at", "createdat", "time"),
    Field("UpdatedAt", "updated_at", "updatedat", "time") >>

Office == <<
    Field("Id", "id", "_id", "objectid"),
    Field("Name", "name", "name", "string") >>

\* Room of the office revision; the tag `json:office_id` has no quotes, so
\* encoding/json finds no json tag and uses the field name
OfficeRoom == <<
    Field("Id", "id", "_id", "objectid"),
    Field("Name", "name", "name", "string"),
    Field("OfficeId", "OfficeId", "officeid", "string") >>

GoNames(T) == {T[i].go : i \in 1..Len(T)}
FieldOf(T, go) == T[CHOOSE i \in 1..Len(T) : T[i].go = go]

\* the zero value of a Go field
Zero(kind) ==
    CASE kind = "bool" -> FALSE
      [] kind = "time" -> ZeroTime
      [] OTHER -> <<>>

ZeroValue(T) == [g \in GoNames(T) |-> Zero(FieldOf(T, g).kind)]

---------------------------------------------------------------------------
(* encoding/json: a request body is Malformed or an object, a function     *)
(* from keys to tagged values.  The object stands for the one under the    *)
(* "data" key of the resource envelope.                                    *)

JStr(s) == [t |-> "string", v |-> s]
JBool(b) == [t |-> "bool", v |-> b]
\* a string in RFC 3339 form denoting instant i
JTime(i) == [t |-> "time", v |-> i]
JArr(a) == [t |-> "array", v |-> a]

Malformed == [malformed |-> TRUE]

\* whether json.Decode can store value j into a field of this kind
Assignable(kind, j) ==
    CASE kind = "string" -> j.t \in {"string", "time"}
      [] kind = "bool" -> j.t = "bool"
      [] kind = "time" -> j.t = "time"
      [] kind = "strings" -> j.t = "array"
      [] kind = "objectid" -> j.t = "string" /\ (j.v = <<>> \/ IsObjectIdHex(j.v))
      [] OTHER -> j.t = "objects"

\* json.NewDecoder(r.Body).Decode(val): err is TRUE when the body is not
\* JSON or a value does not fit its field; absent keys leave the zero value
Decode(body, T) ==
    IF body = Malformed THEN [err |-> TRUE, val |-> ZeroValue(T)]
    ELSE IF \E i \in 1..Len(T) : T[i].json \in DOMAIN body /\ ~Assignable(T[i].kind, body[T[i].json])
    THEN [err |-> TRUE, val |-> ZeroValue(T)]
    ELSE [err |-> FALSE,
          val |-> [g \in GoNames(T) |->
                     LET f == FieldOf(T, g) IN
                     IF f.json \in DOMAIN body
                     THEN (IF f.kind = "objectid" THEN ObjectIdHex(body[f.json].v) ELSE body[f.json].v)
                     ELSE Zero(f.kind)]]

---------------------------------------------------------------------------
(* mgo/bson: a struct value is written as a document keyed by the bson     *)
(* keys; the Id field carries omitempty and is left out when empty.        *)

Marshal(val, T) ==
    LET kept == {i \in 1..Len(T) : ~(T[i].go = "Id" /\ val["Id"] = NoId)} IN
    [k \in {T[i].bson : i \in kept} |->
        val[T[CHOOSE i \in kept : T[i].bson = k].go]]

\* a document read back into a struct: absent keys leave the zero value
Unmarshal(doc, T) ==
    [g \in GoNames(T) |->
        LET f == FieldOf(T, g) IN
        IF f.bson \in DOMAIN doc THEN doc[f.bson] ELSE Zero(f.kind)]

UnmarshalAll(docs, T) == [i \in 1..Len(docs) |-> Unmarshal(docs[i], T)]

---------------------------------------------------------------------------
(* The document store (mgo.Collection): a collection is the sequence of    *)
(* its documents.  err is "nil", "not found" (mgo.ErrNotFound) or "io"     *)
(* (the server cannot be reached or refuses the operation).                *)

\* bson keys that hold arrays
ArrayKeys == {"guestids", "guest_ids", "rooms"}

\* {key: v}: the field equals v, or is an array with an element equal to v
MatchEq(doc, key, v) ==
    /\ key \in DOMAIN doc
    /\ IF key \in ArrayKeys THEN \E i \in 1..Len(doc[key]) : doc[key][i] = v
       ELSE doc[key] = v

\* variant of MatchIn that takes an empty list for "any value"
MatchInOrAll(doc, key, vals) ==
    \/ Len(vals) = 0
    \/ /\ key \in DOMAIN doc
       /\ \E i \in 1..Len(vals) : doc[key] = vals[i]

\* {key: {"$in": vals}}: the field is present and equals one of vals
MatchIn(doc, key, vals) ==
    /\ key \in DOMAIN doc
    /\ \E i \in 1..Len(vals) : doc[key] = vals[i]

\* {key: {"$gte": lo, "$lte": hi}}
MatchRange(doc, key, lo, hi) ==
    /\ key \in DOMAIN doc
    /\ lo <= doc[key]
    /\ doc[key] <= hi

HasId(c, id) == \E i \in 1..Len(c) : c[i]["_id"] = id
IndexOfId(c, id) == CHOOSE i \in 1..Len(c) : c[i]["_id"] = id

WithId(doc, id) == [k \in DOMAIN doc \cup {"_id"} |-> IF k = "_id" THEN id ELSE doc[k]]

\* Collection.UpsertId(id, doc): replaces the document with that _id, or
\* inserts doc under it; a doc naming another _id is refused
UpsertId(c, id, doc, fail) ==
    IF fail \/ ("_id" \in DOMAIN doc /\ doc["_id"] # id) THEN [err |-> "io", coll |-> c]
    ELSE IF HasId(c, id) THEN [err |-> "nil", coll |-> [c EXCEPT ![IndexOfId(c, id)] = WithId(doc, id)]]
    ELSE [err |-> "nil", coll |-> Append(c, WithId(doc, id))]

\* variant of UpdateId that keeps the document and adds the new one after it
UpdateIdInsert(c, id, doc, fail) ==
    IF fail THEN [err |-> "io", coll |-> c]
    ELSE IF ~HasId(c, id) THEN [err |-> "not found", coll |-> c]
    ELSE IF "_id" \in DOMAIN doc /\ doc["_id"] # id THEN [err |-> "io", coll |-> c]
    ELSE [err |-> "nil", coll |-> Append(c, WithId(doc, id))]

\* Collection.UpdateId(id, doc): replaces the document with that _id
UpdateId(c, id, doc, fail) ==
    IF fail THEN [err |-> "io", coll |-> c]
    ELSE IF ~HasId(c, id) THEN [err |-> "not found", coll |-> c]
    ELSE IF "_id" \in DOMAIN doc /\ doc["_id"] # id THEN [err |-> "io", coll |-> c]
    ELSE [err |-> "nil", coll |-> [c EXCEPT ![IndexOfId(c, id)] = WithId(doc, id)]]

\* Collection.RemoveId(id)
RemoveId(c, id, fail) ==
    IF fail THEN [err |-> "io", coll |-> c]
    ELSE IF ~HasId(c, id) THEN [err |-> "not found", coll |-> c]
    ELSE [err |-> "nil", coll |-> SelectSeq(c, LAMBDA d : d["_id"] # id)]

---------------------------------------------------------------------------
(* The repositories.  A result carries: panic (the call panicked), err,    *)
(* data (what the caller gets back), coll (the collection afterwards) and  *)
(* ops (the store operations issued).                                      *)

Result(panic, err, data, coll, ops) ==
    [panic |-> panic, err |-> err, data |-> data, coll |-> coll, ops |-> ops]

HasTimestamps(T) == "CreatedAt" \in GoNames(T)

\* VenueRepo.All, RoomRepo.All, OfficeRepo.All: Find(nil).All
RepoAll(c, T, fail) ==
    IF fail THEN Result(FALSE, "io", <<>>, c, <<"Find">>)
    ELSE Result(FALSE, "nil", UnmarshalAll(c, T), c, <<"Find">>)

\* XRepo.Find: FindId(bson.ObjectIdHex(id)).One; ObjectIdHex panics on a
\* malformed id before the query is built
RepoFind(c, T, id, fail) ==
    IF ~IsObjectIdHex(id) THEN Result(TRUE, "nil", ZeroValue(T), c, <<>>)
    ELSE IF fail THEN Result(FALSE, "io", ZeroValue(T), c, <<"FindId">>)
    ELSE IF ~HasId(c, ObjectIdHex(id)) THEN Result(FALSE, "not found", ZeroValue(T), c, <<"FindId">>)
    ELSE Result(FALSE, "nil", Unmarshal(c[IndexOfId(c, ObjectIdHex(id))], T), c, <<"FindId">>)

\* XRepo.Create: a new identifier, the two timestamps (two readings of the
\* clock) where the type has them, UpsertId, then the identifier is set on
\* the caller's value
RepoCreate(c, T, val, n, t1, t2, fail) ==
    LET id == NewObjectId(n)
        stamped == IF HasTimestamps(T) THEN [val EXCEPT !.CreatedAt = t1, !.UpdatedAt = t2] ELSE val
        r == UpsertId(c, id, Marshal(stamped, T), fail)
    IN  IF r.err # "nil" THEN Result(FALSE, r.err, stamped, r.coll, <<"UpsertId">>)
        ELSE Result(FALSE, "nil", [stamped EXCEPT !.Id = id], r.coll, <<"UpsertId">>)

\* variant of RepoUpdate that carries the stored creation timestamp over
RepoUpdateKeep(c, T, val, t, fail) ==
    LET old == IF HasTimestamps(T) /\ HasId(c, val.Id)
               THEN c[IndexOfId(c, val.Id)]["createdat"] ELSE ZeroTime
        stamped == IF HasTimestamps(T) THEN [val EXCEPT !.UpdatedAt = t, !.CreatedAt = old] ELSE val
        r == UpdateId(c, val.Id, Marshal(stamped, T), fail)
    IN  Result(FALSE, r.err, stamped, r.coll, <<"UpdateId">>)

\* XRepo.Update: the update timestamp where the type has it, then UpdateId
RepoUpdate(c, T, val, t, fail) ==
    LET stamped == IF HasTimestamps(T) THEN [val EXCEPT !.UpdatedAt = t] ELSE val
        r == UpdateId(c, val.Id, Marshal(stamped, T), fail)
    IN  Result(FALSE, r.err, stamped, r.coll, <<"UpdateId">>)

\* XRepo.Delete: RemoveId(bson.ObjectIdHex(id))
RepoDelete(c, id, fail) ==
    IF ~IsObjectIdHex(id) THEN Result(TRUE, "nil", <<>>, c, <<>>)
    ELSE LET r == RemoveId(c, ObjectIdHex(id), fail)
         IN  Result(FALSE, r.err, <<>>, r.coll, <<"RemoveId">>)

\* RoomRepo.AllByVenueId: Find({"venueid": venueId}).All
AllByVenueId(c, venueId, fail) ==
    IF fail THEN Result(FALSE, "io", <<>>, c, <<"Find">>)
    ELSE Result(FALSE, "nil",
                UnmarshalAll(SelectSeq(c, LAMBDA d : MatchEq(d, "venueid", venueId)), Room),
                c, <<"Find">>)

\* RoomRepo.AllByOfficeId: Find({"office_id": officeId}).All
AllByOfficeId(c, officeId, fail) ==
    IF fail THEN Result(FALSE, "io", <<>>, c, <<"Find">>)
    ELSE Result(FALSE, "nil",
                UnmarshalAll(SelectSeq(c, LAMBDA d : MatchEq(d, "office_id", officeId)), OfficeRoom),
                c, <<"Find">>)

\* variant of AllWindow bounded by the week (Sunday to Saturday) instead of the month
AllWindowWeek(t1, t2) == [start |-> BeginningOfWeek(t1), end |-> EndOfWeek(t2)]

\* the window AppointmentRepo.All queries: now.BeginningOfMonth() and
\* now.EndOfMonth() each read the clock (t1, then t2)
AllWindow(t1, t2) == [start |-> BeginningOfMonth(t1), end |-> EndOfMonth(t2)]

\* AppointmentRepo.All: Find({"start_time": {"$gte": ..., "$lte": ...}}).All
AppointmentRepoAll(c, t1, t2, fail) ==
    LET w == AllWindow(t1, t2) IN
    IF fail THEN Result(FALSE, "io", <<>>, c, <<"Find">>)
    ELSE Result(FALSE, "nil",
                UnmarshalAll(SelectSeq(c, LAMBDA d : MatchRange(d, "start_time", w.start, w.end)),
                             Appointment),
                c, <<"Find">>)

\* the query document of AppointmentRepo.Search
SearchQuery(d, roomIds, owner, guestId) ==
    /\ MatchIn(d, "room_id", roomIds)
    /\ \/ MatchEq(d, "owner", owner)
       \/ MatchEq(d, "guest_ids", guestId)

\* AppointmentRepo.Search
Search(c, roomIds, owner, guestId, fail) ==
    IF fail THEN Result(FALSE, "io", <<>>, c, <<"Find">>)
    ELSE Result(FALSE, "nil",
                UnmarshalAll(SelectSeq(c, LAMBDA d : SearchQuery(d, roomIds, owner, guestId)),
                             Appointment),
                c, <<"Find">>)

---------------------------------------------------------------------------
(* Requests.  params are the named path segments httprouter extracted for  *)
(* the matched route, query the URL's query string, failAt the store call  *)
(* of this request that fails (0: none), t1 <= t2 the readings of the      *)
(* clock the request makes.                                                *)

NoParams == [k \in {} |-> EmptyString]

\* httprouter.Params.ByName: the segment's value, "" when no segment has that name
ByName(ps, name) == IF name \in DOMAIN ps THEN ps[name] ELSE EmptyString

\* the collection and the record type behind a resource name
TypeOf(res) ==
    CASE res = "venues" -> Venue
      [] res = "offices" -> Office
      [] res = "appointments" -> Appointment
      [] res = "rooms" -> IF variant = "venue" THEN Room ELSE OfficeRoom

\* what a handler leaves behind: the database, the responses written, whether
\* it panicked, the store operations issued, the identifier counter
Out(dbv, w, panic, ops, n) == [db |-> dbv, w |-> w, panic |-> panic, ops |-> ops, nextId |-> n]

Panicked(ops, n) == Out(db, <<>>, TRUE, ops, n)

---------------------------------------------------------------------------
(* Middlewares, lines 66-141.  A middleware gets the request and what the  *)
(* rest of the chain would do.                                             *)

\* variant of recoverHandler that lets the panic through
recoverNothing(o) == o

\* recoverHandler: a panic below it is recovered and answered with ErrInternalServer
recoverHandler(o) ==
    IF o.panic THEN [o EXCEPT !.w = WriteError(o.w, ErrInternalServer), !.panic = FALSE]
    ELSE o

acceptHandler(r, next) ==
    IF r.accept # ApiJson THEN Out(db, WriteError(<<>>, ErrNotAcceptable), FALSE, <<>>, nextId)
    ELSE next

contentTypeHandler(r, next) ==
    IF r.ctype # ApiJson THEN Out(db, WriteError(<<>>, ErrUnsupportedMediaType), FALSE, <<>>, nextId)
    ELSE next

\* bodyHandler(v): decodes the body into a new value of v's type and leaves
\* it in the request context under "body" for the next handler
bodyHandler(r, T, next) ==
    IF Decode(r.body, T).err THEN Out(db, WriteError(<<>>, ErrBadRequest), FALSE, <<>>, nextId)
    ELSE next

\* context.Get(r, "body"): the value bodyHandler left in the context
ContextBody(r, T) == Decode(r.body, T).val

\* alice.New(context.ClearHandler, loggingHandler, recoverHandler, acceptHandler);
\* the first two leave the response and the store alone
commonHandlers(r, h) == recoverHandler(acceptHandler(r, h))

\* variant of bodyHandlers that checks the Content-Type before the Accept header
bodyHandlersSwapped(r, T, h) ==
    recoverHandler(contentTypeHandler(r, acceptHandler(r, bodyHandler(r, T, h))))

\* commonHandlers.Append(contentTypeHandler, bodyHandler(XResource{}))
bodyHandlers(r, T, h) ==
    recoverHandler(acceptHandler(r, contentTypeHandler(r, bodyHandler(r, T, h))))

---------------------------------------------------------------------------
(* Handlers *)

\* venueHandler, roomHandler, appointmentHandler, officeHandler
findHandler(res, r) ==
    LET x == RepoFind(db[res], TypeOf(res), ByName(r.params, "id"), r.failAt = 1) IN
    IF x.panic \/ x.err # "nil" THEN Panicked(x.ops, nextId)
    ELSE Out(db, WriteSuccess(<<>>, StatusOK, x.data), FALSE, x.ops, nextId)

\* createVenueHandler, createRoomHandler, createAppointmentHandler, createOfficeHandler
createHandler(res, r) ==
    LET body == ContextBody(r, TypeOf(res))
        x == RepoCreate(db[res], TypeOf(res), body, nextId, r.t1, r.t2, r.failAt = 1) IN
    IF x.err # "nil" THEN Panicked(x.ops, nextId + 1)
    ELSE Out([db EXCEPT ![res] = x.coll], WriteSuccess(<<>>, StatusCreated, x.data), FALSE,
             x.ops, nextId + 1)

\* variant of updateHandler that updates the record the body names, and the
\* record of the path only when the body names none
updateHandlerBodyId(res, r) ==
    LET id == ByName(r.params, "id")
        body == ContextBody(r, TypeOf(res)) IN
    IF ~IsObjectIdHex(id) THEN Panicked(<<>>, nextId)
    ELSE LET x == RepoUpdate(db[res], TypeOf(res),
                             IF body.Id = NoId THEN [body EXCEPT !.Id = ObjectIdHex(id)] ELSE body,
                             r.t1, r.failAt = 1)
         IN  IF x.err # "nil" THEN Panicked(x.ops, nextId)
             ELSE Out([db EXCEPT ![res] = x.coll], WriteSuccess(<<>>, StatusAccepted, x.data),
                      FALSE, x.ops, nextId)

\* updateVenueHandler, updateRoomHandler, updateAppointmentHandler, updateOfficeHandler
updateHandler(res, r) ==
    LET id == ByName(r.params, "id")
        body == ContextBody(r, TypeOf(res)) IN
    IF ~IsObjectIdHex(id) THEN Panicked(<<>>, nextId)
    ELSE LET x == RepoUpdate(db[res], TypeOf(res), [body EXCEPT !.Id = ObjectIdHex(id)],
                             r.t1, r.failAt = 1)
         IN  IF x.err # "nil" THEN Panicked(x.ops, nextId)
             ELSE Out([db EXCEPT ![res] = x.coll], WriteSuccess(<<>>, StatusAccepted, x.data),
                      FALSE, x.ops, nextId)

\* deleteVenueHandler, deleteRoomHandler, deleteAppointmentHandler, deleteOfficeHandler
deleteHandler(res, r) ==
    LET x == RepoDelete(db[res], ByName(r.params, "id"), r.failAt = 1) IN
    IF x.panic \/ x.err # "nil" THEN Panicked(x.ops, nextId)
    ELSE Out([db EXCEPT ![res] = x.coll], WriteSuccess(<<>>, StatusAccepted, "deleted"), FALSE,
             x.ops, nextId)

\* roomsHandler, officesHandler
listHandler(res, r) ==
    LET x == RepoAll(db[res], TypeOf(res), r.failAt = 1) IN
    IF x.err # "nil" THEN Panicked(x.ops, nextId)
    ELSE Out(db, WriteSuccess(<<>>, StatusOK, x.data), FALSE, x.ops, nextId)

\* venuesHandler: all venues, then one AllByVenueId per venue; store call
\* number k (1: the venues, k+1: the rooms of the k-th venue) may fail
venuesHandler(r) ==
    LET x == RepoAll(db["venues"], Venue, r.failAt = 1)
        n == Len(x.data)
        rooms(i) == AllByVenueId(db["rooms"], x.data[i].Id, r.failAt = i + 1)
        calls == IF r.failAt \in 2..(n + 1) THEN r.failAt ELSE n + 1
        ops == [k \in 1..calls |-> "Find"]
    IN  IF x.err # "nil" THEN Panicked(x.ops, nextId)
        ELSE IF r.failAt \in 2..(n + 1) THEN Panicked(ops, nextId)
        ELSE Out(db,
                 WriteSuccess(<<>>, StatusOK,
                              [i \in 1..n |-> [x.data[i] EXCEPT !.Rooms = rooms(i).data]]),
                 FALSE, ops, nextId)

\* roomsVenueHandler
roomsVenueHandler(r) ==
    LET x == AllByVenueId(db["rooms"], ByName(r.params, "id"), r.failAt = 1) IN
    IF x.err # "nil" THEN Panicked(x.ops, nextId)
    ELSE Out(db, WriteSuccess(<<>>, StatusOK, x.data), FALSE, x.ops, nextId)

\* roomsOfficeHandler
roomsOfficeHandler(r) ==
    LET x == AllByOfficeId(db["rooms"], ByName(r.params, "office_id"), r.failAt = 1) IN
    IF x.err # "nil" THEN Panicked(x.ops, nextId)
    ELSE Out(db, WriteSuccess(<<>>, StatusOK, x.data), FALSE, x.ops, nextId)

\* appointmentsHandler
appointmentsHandler(r) ==
    LET x == AppointmentRepoAll(db["appointments"], r.t1, r.t2, r.failAt = 1) IN
    IF x.err # "nil" THEN Panicked(x.ops, nextId)
    ELSE Out(db, WriteSuccess(<<>>, StatusOK, x.data), FALSE, x.ops, nextId)

\* searchAppointmentsHandler: room_ids[] from the query string; owner and
\* guest_id from the path segments; the error of ParseBool is dropped
searchAppointmentsHandler(r) ==
    LET roomIds == r.query.room_ids
        owner == ParseBool(ByName(r.params, "owner")).val
        guestId == ByName(r.params, "guest_id")
        x == Search(db["appointments"], roomIds, owner, guestId, r.failAt = 1)
    IN  IF x.err # "nil" THEN Panicked(x.ops, nextId)
        ELSE Out(db, WriteSuccess(<<>>, StatusOK, x.data), FALSE, x.ops, nextId)

---------------------------------------------------------------------------
(* The inputs the model draws requests from *)

R1 == <<"R", "1">>
R2 == <<"R", "2">>
U1 == <<"u", "1">>
U2 == <<"u", "2">>
U3 == <<"u", "3">>
V1 == <<"V", "1">>
True == <<"t", "r", "u", "e">>

\* 24 characters, the last of them no hex digit
NotHex == [i \in 1..IdHexLen |-> IF i = IdHexLen THEN "g" ELSE "0"]

\* path identifiers: every identifier the store can hold, and a malformed one
PathIds == {NewObjectId(n) : n \in 1..MaxId} \cup {NotHex}

\* references a room body may carry to its venue or office
VenueRefs == {V1, NewObjectId(1)}

\* appointment bodies: one of a guest's, starting inside the last month of the
\* calendar; one of the owner's, starting before it; one whose owner is a
\* user identifier instead of a boolean
AppointmentBodies ==
    {[appointment_name |-> JStr(<<"s">>), room_id |-> JStr(R1), guest_ids |-> JArr(<<U2>>),
      owner |-> JBool(FALSE), start_time |-> JTime(Horizon), end_time |-> JTime(Horizon)],
     [appointment_name |-> JStr(<<"s">>), room_id |-> JStr(R1), guest_ids |-> JArr(<<>>),
      owner |-> JBool(TRUE), start_time |-> JTime(BeginningOfMonth(Horizon) - 1),
      end_time |-> JTime(Horizon)],
     [room_id |-> JStr(R1), guest_ids |-> JArr(<<U2>>), owner |-> JStr(U1),
      start_time |-> JTime(Horizon)]}

\* venue and office bodies: one without an identifier, one that carries the
\* identifier the store assigns first
NamedBodies ==
    {[name |-> JStr(<<"A">>)], [name |-> JStr(<<"B">>), id |-> JStr(NewObjectId(1))]}

Bodies(res) ==
    {Malformed} \cup
    CASE res = "venues" -> NamedBodies
      [] res = "offices" -> NamedBodies
      [] res = "appointments" -> AppointmentBodies
      [] res = "rooms" ->
            IF variant = "venue"
            THEN {[name |-> JStr(<<"A">>), venue_id |-> JStr(v), capacity |-> JStr(<<"8">>)] :
                    v \in VenueRefs}
            ELSE {[name |-> JStr(<<"A">>), office_id |-> JStr(v)] : v \in VenueRefs}
                 \cup {[name |-> JStr(<<"A">>), OfficeId |-> JStr(v)] : v \in VenueRefs}

NoQuery == [room_ids |-> <<>>, owner |-> EmptyString, guest_id |-> EmptyString]

\* query strings of a search: room_ids[] repeated, owner, guest_id
SearchQueries ==
    {[room_ids |-> rs, owner |-> og[1], guest_id |-> og[2]] :
        rs \in {<<>>, <<R1>>, <<R2>>}, og \in {<<U1, U1>>, <<U3, U3>>, <<True, U2>>}}

Headers == {ApiJson, "text/html"}

Request(route, res, params, query, body, accept, ctype, failAt, t1, t2) ==
    [route |-> route, res |-> res, params |-> params, query |-> query, body |-> body,
     accept |-> accept, ctype |-> ctype, failAt |-> failAt, t1 |-> t1, t2 |-> t2]

\* the server reads the body of a request only in bodyHandler, which a create
\* or an update with the right Accept and Content-Type reaches
BodyRead(r) == r.route \in {"post", "patch"} /\ r.accept = ApiJson /\ r.ctype = ApiJson

\* what the state keeps of the request served last: the request, its body
\* and whether it failed to decode when the server read it, the two clock
\* readings, and the window they give to the appointment listing, the one
\* handler that computes a window
Seen(r) ==
    [route |-> r.route, res |-> r.res, id |-> ByName(r.params, "id"), query |-> r.query,
     accept |-> r.accept, ctype |-> r.ctype,
     body |-> IF BodyRead(r) THEN r.body ELSE Malformed,
     bodyErr |-> BodyRead(r) /\ Decode(r.body, TypeOf(r.res)).err,
     failAt |-> r.failAt,
     clock |-> <<r.t1, r.t2>>,
     window |-> IF r.route = "list" /\ r.res = "appointments" THEN AllWindow(r.t1, r.t2)
                ELSE [start |-> 0, end |-> 0]]

NoRequest ==
    [route |-> "none", res |-> "none", id |-> EmptyString, query |-> NoQuery, accept |-> ApiJson,
     ctype |-> ApiJson, body |-> Malformed, bodyErr |-> FALSE, failAt |-> 0, clock |-> <<0, 0>>,
     window |-> [start |-> 0, end |-> 0]]

---------------------------------------------------------------------------
(* The state machine *)

Collections == {"venues", "rooms", "appointments", "offices"}

\* net/http serves every request in a goroutine of its own; the model follows
\* two requests step by step, all others from start to end
Goroutines == {"a", "b"}

\* a goroutine that serves no request
Idle ==
    [pc |-> "idle", id |-> EmptyString, body |-> Malformed, existed |-> FALSE,
     val |-> ZeroValue(Appointment), t |-> 0, failed |-> FALSE, w |-> <<>>]

InitAt(v, t) ==
    /\ variant = v
    /\ db = [c \in Collections |-> <<>>]
    /\ nextId = 1
    /\ now = t
    /\ serving = TRUE
    /\ req = NoRequest
    /\ written = <<>>
    /\ storeOps = <<>>
    /\ retried = FALSE
    /\ inflight = [g \in Goroutines |-> Idle]
    /\ writes = <<>>

\* the two requests are the same but for the instants at which they are served
SameRequest(a, b) == \A k \in DOMAIN a \ {"clock", "window"} : a[k] = b[k]

\* one request served from start to end: o is what the handler chain did,
\* again whether the client sent it as a retry of the request before it
ServeAs(r, o, again) ==
    /\ serving
    /\ req' = Seen(r)
    /\ db' = o.db
    /\ nextId' = o.nextId
    /\ written' = o.w
    /\ storeOps' = o.ops
    /\ retried' = again
    /\ UNCHANGED <<inflight, writes>>
    /\ serving' = ~o.panic
    /\ now' = r.t2
    /\ UNCHANGED variant

Serve(r, o) == ServeAs(r, o, FALSE)

\* the clock readings of one request: the clock does not run backwards, moves
\* at most one tick while a request is served, and stops at the horizon
Readings ==
    {t \in (now..(now + 1)) \X (now..(now + 1)) : t[1] <= t[2] /\ t[2] <= Horizon}

Serves(res) ==
    IF variant = "venue" THEN res \in {"venues", "rooms", "appointments"}
    ELSE res \in {"offices", "rooms"}

\* GET /<res>/:id
Get(res) ==
    \E id \in PathIds, a \in Headers, f \in 0..1, t \in Readings :
        LET r == Request("get", res, [id |-> id], NoQuery, Malformed, a, ApiJson, f, t[1], t[2])
        IN  /\ Serves(res)
            /\ Serve(r, commonHandlers(r, findHandler(res, r)))

\* POST /<res>
Post(res) ==
    \E a \in Headers, c \in Headers, f \in 0..1, t \in Readings :
      \E b \in Bodies(res) :
        LET r == Request("post", res, NoParams, NoQuery, b, a, c, f, t[1], t[2])
            h == createHandler(res, r)
        IN  /\ Serves(res)
            /\ nextId <= MaxId
            /\ Serve(r, bodyHandlers(r, TypeOf(res), h))

\* PATCH /<res>/:id
Patch(res) ==
    \E id \in PathIds, a \in Headers, c \in Headers, f \in 0..1, t \in Readings :
      \E b \in Bodies(res) :
        LET r == Request("patch", res, [id |-> id], NoQuery, b, a, c, f, t[1], t[2])
            h == updateHandler(res, r)
        IN  /\ Serves(res)
            /\ Serve(r, bodyHandlers(r, TypeOf(res), h))

\* DELETE /<res>/:id
Delete(res) ==
    \E id \in PathIds, a \in Headers, f \in 0..1, t \in Readings :
        LET r == Request("delete", res, [id |-> id], NoQuery, Malformed, a, ApiJson, f, t[1], t[2])
        IN  /\ Serves(res)
            /\ Serve(r, commonHandlers(r, deleteHandler(res, r)))

\* GET /rooms, GET /offices
List(res) ==
    \E a \in Headers, f \in 0..1, t \in Readings :
        LET r == Request("list", res, NoParams, NoQuery, Malformed, a, ApiJson, f, t[1], t[2])
        IN  /\ Serves(res)
            /\ res \in {"rooms", "offices"}
            /\ Serve(r, commonHandlers(r, listHandler(res, r)))

\* GET /venues
ListVenues ==
    \E a \in Headers, f \in 0..(Len(db["venues"]) + 1), t \in Readings :
        LET r == Request("list", "venues", NoParams, NoQuery, Malformed, a, ApiJson, f, t[1], t[2])
        IN  /\ variant = "venue"
            /\ Serve(r, commonHandlers(r, venuesHandler(r)))

\* GET /appointments
ListAppointments ==
    \E a \in Headers, f \in 0..1, t \in Readings :
        LET r == Request("list", "appointments", NoParams, NoQuery, Malformed, a, ApiJson, f,
                         t[1], t[2])
        IN  /\ variant = "venue"
            /\ Serve(r, commonHandlers(r, appointmentsHandler(r)))

\* GET /venues/:id/rooms
ListRoomsByVenue ==
    \E id \in PathIds \cup VenueRefs, a \in Headers, f \in 0..1, t \in Readings :
        LET r == Request("roomsOf", "rooms", [id |-> id], NoQuery, Malformed, a, ApiJson, f,
                         t[1], t[2])
        IN  /\ variant = "venue"
            /\ Serve(r, commonHandlers(r, roomsVenueHandler(r)))

\* GET /offices/:id/rooms
ListRoomsByOffice ==
    \E id \in PathIds \cup VenueRefs, a \in Headers, f \in 0..1, t \in Readings :
        LET r == Request("roomsOf", "rooms", [id |-> id], NoQuery, Malformed, a, ApiJson, f,
                         t[1], t[2])
        IN  /\ variant = "office"
            /\ Serve(r, commonHandlers(r, roomsOfficeHandler(r)))

\* the named segments of the route "/search-appointments": none
SearchParams == NoParams

\* GET /search-appointments
SearchAppointments ==
    \E q \in SearchQueries, a \in Headers, f \in 0..1, t \in Readings :
        LET r == Request("search", "appointments", SearchParams, q, Malformed, a, ApiJson, f,
                         t[1], t[2])
        IN  /\ variant = "venue"
            /\ Serve(r, commonHandlers(r, searchAppointmentsHandler(r)))

\* the router: the chain of handlers the route of the request leads to
Route(r) ==
    CASE r.route = "get" -> commonHandlers(r, findHandler(r.res, r))
      [] r.route = "post" -> bodyHandlers(r, TypeOf(r.res), createHandler(r.res, r))
      [] r.route = "patch" -> bodyHandlers(r, TypeOf(r.res), updateHandler(r.res, r))
      [] r.route = "delete" -> commonHandlers(r, deleteHandler(r.res, r))
      [] r.route = "list" /\ r.res = "venues" -> commonHandlers(r, venuesHandler(r))
      [] r.route = "list" /\ r.res = "appointments" -> commonHandlers(r, appointmentsHandler(r))
      [] r.route = "list" /\ r.res \in {"rooms", "offices"} -> commonHandlers(r, listHandler(r.res, r))
      [] r.route = "roomsOf" /\ variant = "venue" -> commonHandlers(r, roomsVenueHandler(r))
      [] r.route = "roomsOf" /\ variant = "office" -> commonHandlers(r, roomsOfficeHandler(r))
      [] r.route = "search" -> commonHandlers(r, searchAppointmentsHandler(r))

\* the client sends the request served last once more: the same method,
\* path, query, headers and body, met by the same fate of the store call
Retry ==
    \E t \in Readings :
        LET r == Request(req.route, req.res,
                         IF req.route \in {"get", "patch", "delete", "roomsOf"}
                         THEN [id |-> req.id] ELSE NoParams,
                         req.query, req.body, req.accept, req.ctype, req.failAt, t[1], t[2])
        IN  /\ req.route # "none"
            /\ req.route = "post" => nextId <= MaxId
            /\ ServeAs(r, Route(r), TRUE)

\* the whole server, either revision
Init == \E v \in {"venue", "office"} : InitAt(v, Horizon)

Next ==
    \/ \E res \in Collections : Get(res) \/ Post(res) \/ Patch(res) \/ Delete(res) \/ List(res)
    \/ ListVenues
    \/ ListAppointments
    \/ ListRoomsByVenue
    \/ ListRoomsByOffice
    \/ SearchAppointments

Spec == Init /\ [][Next]_vars

\* the appointment routes of the venue revision
InitAppointments == InitAt("venue", Horizon)

NextAppointments ==
    \/ Get("appointments")
    \/ Post("appointments")
    \/ Patch("appointments")
    \/ Delete("appointments")
    \/ ListAppointments
    \/ SearchAppointments

SpecAppointments == InitAppointments /\ [][NextAppointments]_vars

\* the room routes, of either revision
InitRooms == \E v \in {"venue", "office"} : InitAt(v, Horizon)

NextRooms ==
    \/ Post("rooms")
    \/ Patch("rooms")
    \/ Delete("rooms")
    \/ List("rooms")
    \/ ListRoomsByVenue
    \/ ListRoomsByOffice

SpecRooms == InitRooms /\ [][NextRooms]_vars

\* the venue routes of the venue revision, and the creation of rooms
InitVenues == InitAt("venue", Horizon)

NextVenues ==
    \/ Get("venues")
    \/ Post("venues")
    \/ Patch("venues")
    \/ Delete("venues")
    \/ ListVenues
    \/ Post("rooms")

SpecVenues == InitVenues /\ [][NextVenues]_vars

\* creation of venues and appointments (venue revision) and of offices
\* (office revision), removal of venues and offices, the clock running
InitCreate == \E v \in {"venue", "office"} : InitAt(v, Horizon - 1)

NextCreate ==
    \/ Post("venues")
    \/ Delete("venues")
    \/ Post("offices")
    \/ Delete("offices")
    \/ Post("appointments")

SpecCreate == InitCreate /\ [][NextCreate]_vars

\* creation and update of appointments (venue revision), the clock running;
\* the server starts with every identifier but the last handed out, the
\* records it made with them removed again
InitUpdate ==
    /\ variant = "venue"
    /\ db = [c \in Collections |-> <<>>]
    /\ nextId = MaxId
    /\ now = Horizon - 1
    /\ serving = TRUE
    /\ req = NoRequest
    /\ written = <<>>
    /\ storeOps = <<>>
    /\ retried = FALSE
    /\ inflight = [g \in Goroutines |-> Idle]
    /\ writes = <<>>

NextUpdate ==
    \/ Post("appointments")
    \/ Patch("appointments")

SpecUpdate == InitUpdate /\ [][NextUpdate]_vars

\* PATCH /appointments/:id in goroutine g, up to the call of repo.Update:
\* the middlewares, the identifier of the path set on the decoded body
\* (ObjectIdHex panics on a malformed one), and the reading of the clock
StartUpdate(g) ==
    \E id \in PathIds, b \in Bodies("appointments"), t \in {u \in now..(now + 1) : u <= Horizon} :
        LET r == Request("patch", "appointments", [id |-> id], NoQuery, b, ApiJson, ApiJson, 0, t, t)
            reached == Out(db, <<>>, FALSE, <<>>, nextId)
            o == bodyHandlers(r, Appointment,
                              IF IsObjectIdHex(id) THEN reached ELSE Panicked(<<>>, nextId))
            going == o.w = <<>>
        IN  /\ serving
            /\ inflight[g].pc = "idle"
            /\ inflight' = [inflight EXCEPT ![g] =
                    [pc |-> IF going THEN "ready" ELSE "done",
                     id |-> id,
                     body |-> b,
                     existed |-> IsObjectIdHex(id) /\ HasId(db["appointments"], ObjectIdHex(id)),
                     val |-> IF going
                             THEN [ContextBody(r, Appointment) EXCEPT !.Id = ObjectIdHex(id)]
                             ELSE ZeroValue(Appointment),
                     t |-> t,
                     failed |-> FALSE,
                     w |-> o.w]]
            /\ now' = t
            /\ UNCHANGED <<variant, db, nextId, serving, req, written, storeOps, retried, writes>>

\* variant of WriteUpdate in which the store keeps the record of the first
\* write and drops the later ones
WriteUpdateOnce(g) ==
    \E fail \in BOOLEAN :
        LET x == RepoUpdate(db["appointments"], Appointment, inflight[g].val, inflight[g].t, fail)
            o == recoverHandler(
                    IF x.err # "nil" THEN Panicked(x.ops, nextId)
                    ELSE Out([db EXCEPT !["appointments"] = x.coll],
                             WriteSuccess(<<>>, StatusAccepted, x.data), FALSE, x.ops, nextId))
        IN  /\ serving
            /\ inflight[g].pc = "ready"
            /\ db' = IF writes = <<>> THEN o.db ELSE db
            /\ inflight' = [inflight EXCEPT ![g].pc = "done", ![g].failed = fail, ![g].w = o.w]
            /\ writes' = IF x.err = "nil" THEN Append(writes, g) ELSE writes
            /\ UNCHANGED <<variant, nextId, now, serving, req, written, storeOps, retried>>

\* the rest of the request of goroutine g: UpdateId, one atomic operation of
\* the store, and the response
WriteUpdate(g) ==
    \E fail \in BOOLEAN :
        LET x == RepoUpdate(db["appointments"], Appointment, inflight[g].val, inflight[g].t, fail)
            o == recoverHandler(
                    IF x.err # "nil" THEN Panicked(x.ops, nextId)
                    ELSE Out([db EXCEPT !["appointments"] = x.coll],
                             WriteSuccess(<<>>, StatusAccepted, x.data), FALSE, x.ops, nextId))
        IN  /\ serving
            /\ inflight[g].pc = "ready"
            /\ db' = o.db
            /\ inflight' = [inflight EXCEPT ![g].pc = "done", ![g].failed = fail, ![g].w = o.w]
            /\ writes' = IF x.err = "nil" THEN Append(writes, g) ELSE writes
            /\ UNCHANGED <<variant, nextId, now, serving, req, written, storeOps, retried>>

\* two updates side by side on a store that holds one appointment, created
\* by a request served before
InitConcurrent ==
    LET b == CHOOSE x \in AppointmentBodies : ~Decode(x, Appointment).err /\ x.owner.v
        x == RepoCreate(<<>>, Appointment, Decode(b, Appointment).val, 1, Horizon - 1, Horizon - 1,
                        FALSE)
    IN  /\ variant = "venue"
        /\ db = [c \in Collections |-> IF c = "appointments" THEN x.coll ELSE <<>>]
        /\ nextId = 2
        /\ now = Horizon - 1
        /\ serving = TRUE
        /\ req = NoRequest
        /\ written = <<>>
        /\ storeOps = <<>>
        /\ retried = FALSE
        /\ inflight = [g \in Goroutines |-> Idle]
        /\ writes = <<>>

NextConcurrent == \E g \in Goroutines : StartUpdate(g) \/ WriteUpdate(g)

SpecConcurrent == InitConcurrent /\ [][NextConcurrent]_vars

\* the appointment routes, and the retry of a request; the server starts
\* with every identifier but the last two handed out, the records it made
\* with them removed again
InitRetry ==
    /\ variant = "venue"
    /\ db = [c \in Collections |-> <<>>]
    /\ nextId = MaxId - 1
    /\ now = Horizon
    /\ serving = TRUE
    /\ req = NoRequest
    /\ written = <<>>
    /\ storeOps = <<>>
    /\ retried = FALSE
    /\ inflight = [g \in Goroutines |-> Idle]
    /\ writes = <<>>

NextRetry ==
    \/ NextAppointments
    \/ Retry

SpecRetry == InitRetry /\ [][NextRetry]_vars

\* the venue routes, the creation of rooms, and the appointment search; the
\* server starts with every identifier but the last two handed out
InitFrame == InitRetry

NextFrame ==
    \/ NextVenues
    \/ SearchAppointments

SpecFrame == InitFrame /\ [][NextFrame]_vars

\* the appointment listing at every instant of the calendar
InitCalendar == \E t \in 0..Horizon : InitAt("venue", t)

NextCalendar == ListAppointments

SpecCalendar == InitCalendar /\ [][NextCalendar]_vars

---------------------------------------------------------------------------
(* Properties *)

SeqToSet(q) == {q[i] : i \in 1..Len(q)}

\* the request r passed every gate in front of its handler
Passed(r) ==
    /\ r.accept = ApiJson
    /\ r.route \in {"post", "patch"} => (r.ctype = ApiJson /\ ~r.bodyErr)

\* the last request got exactly one response, a success
Succeeded ==
    /\ Len(written) = 1
    /\ written[1].status \in {StatusOK, StatusCreated, StatusAccepted}

\* the last request got exactly one response, an error with a status in sts
Refused(w, sts) ==
    /\ Len(w) = 1
    /\ w[1].status \in sts

InternalFailure == <<[status |-> 500, error |-> "internal_server_error"]>>

Stored(res) == {Unmarshal(db[res][i], TypeOf(res)) : i \in 1..Len(db[res])}

Searched == req.route = "search" /\ Succeeded
ListedAppointments == req.route = "list" /\ req.res = "appointments" /\ Succeeded

\* the stored owner flag is the one the client's text names
OwnerIs(e, text) == ~ParseBool(text).err /\ ParseBool(text).val = e.Owner

\* C2: a stored event in a requested room is returned by the search exactly
\* when its owner is the owner the client passed or its guest list contains
\* the guest the client passed.  (The search takes no window: every stored
\* event counts as inside it.)
C2_ParticipantFilter ==
    Searched =>
        \A e \in Stored("appointments") :
            e.RoomId \in SeqToSet(req.query.room_ids) =>
                ((OwnerIs(e, req.query.owner) \/ req.query.guest_id \in SeqToSet(e.GuestIds))
                    <=> e \in SeqToSet(written[1].data))

\* C3: a search with an empty set of room identifiers returns the empty
\* sequence, whatever the owner, the guest and the stored events.
C3_EmptyRoomSet ==
    (Searched /\ req.query.room_ids = <<>>) => written[1].data = <<>>

\* a search with no room identifier was answered while the store held an
\* event that the participant clause of the query matches (owner = false)
C3_Witness ==
    /\ Searched
    /\ req.query.room_ids = <<>>
    /\ \E e \in Stored("appointments") : e.Owner = FALSE

\* C4: the unfiltered listing returns exactly the stored events whose start
\* time lies in the window, both ends included.
C4_ListAll ==
    ListedAppointments =>
        SeqToSet(written[1].data) =
            {e \in Stored("appointments") :
                req.window.start <= e.StartTime /\ e.StartTime <= req.window.end}

RoomRef(e) == IF variant = "venue" THEN e.VenueId ELSE e.OfficeId

\* C6: listing rooms by venue or office identifier v returns exactly the
\* stored rooms whose venue or office reference equals v, in both revisions.
C6_ListByVenue ==
    (req.route = "roomsOf" /\ Succeeded) =>
        SeqToSet(written[1].data) = {e \in Stored("rooms") : RoomRef(e) = req.id}

\* C7: an update whose well-formed identifier matches no stored record is
\* answered with a not-found response and leaves the store unchanged.
C7_UpdateMissing ==
    [][(/\ req'.route = "patch"
        /\ Passed(req')
        /\ req'.failAt = 0
        /\ IsObjectIdHex(req'.id)
        /\ ~HasId(db[req'.res], ObjectIdHex(req'.id)))
       => (Refused(written', {404}) /\ db' = db)]_vars

\* C8: a find, update or delete whose path identifier is malformed is
\* answered with a client validation error (status 4xx), and issues no
\* store operation.
C8_MalformedId ==
    (req.route \in {"get", "patch", "delete"} /\ Passed(req) /\ ~IsObjectIdHex(req.id))
        => (Refused(written, 400..499) /\ storeOps = <<>>)

\* a store call of request r fails, its identifier is malformed, or the
\* record it names is missing from the database d it is served on
Failure(r, d) ==
    /\ Passed(r)
    /\ \/ /\ r.route \in {"get", "patch", "delete"}
          /\ \/ ~IsObjectIdHex(r.id)
             \/ r.failAt = 1
             \/ ~HasId(d[r.res], ObjectIdHex(r.id))
       \/ r.route = "post" /\ r.failAt = 1
       \/ r.route = "list" /\ r.res = "venues" /\ r.failAt \in 1..(Len(d["venues"]) + 1)
       \/ r.route \in {"list", "roomsOf", "search"} /\ r.res # "venues" /\ r.failAt = 1

\* C9: a request whose handler fails is answered with exactly one response,
\* the generic internal failure, and the server goes on serving.
C9_Recovered ==
    [][Failure(req', db) => (written' = InternalFailure /\ serving')]_vars

\* the venue listing failed at the rooms query of its first venue, was
\* answered with the internal failure, and the server is serving
C9_Witness ==
    /\ req.route = "list"
    /\ req.res = "venues"
    /\ Passed(req)
    /\ req.failAt = 2
    /\ Len(db["venues"]) >= 1
    /\ written = InternalFailure
    /\ serving

\* C10: a search or listing in which a step fails (the store call, or the
\* parsing of the search's owner value) ends in an error response.
C10_NothingSwallowed ==
    (/\ req.res = "appointments"
     /\ req.route \in {"search", "list"}
     /\ Passed(req)
     /\ \/ req.failAt = 1
        \/ req.route = "search" /\ ParseBool(ByName(SearchParams, "owner")).err)
    => Refused(written, 400..599)

---------------------------------------------------------------------------
(* Retries *)

Timestamps == {"createdat", "updatedat"}

\* a document without its timestamps
Untimed(doc) == [k \in DOMAIN doc \ Timestamps |-> doc[k]]

\* the documents of every collection, in order, timestamps left out
Records(d) == [c \in Collections |-> [i \in 1..Len(d[c]) |-> Untimed(d[c][i])]]

\* C11 as stated: serving the same request a second time in succession
\* leaves the store with the records the first time left (timestamps
\* ignored), for every operation, create included.
C11_Idempotent ==
    [][retried' => (SameRequest(req', req) /\ Records(db') = Records(db))]_vars

\* C11 amended: a repeated list, find, search, update or delete leaves the
\* records the first one left (timestamps ignored), and so does a repeated
\* create that fails; a repeated create that succeeds adds one more record,
\* under an identifier no record had, and leaves the others alone.
C11_IdempotentButCreate ==
    [][retried' =>
        /\ SameRequest(req', req)
        /\ IF req'.route = "post" /\ written' # <<>> /\ written'[1].status = StatusCreated
           THEN LET c == req'.res IN
                /\ Len(db'[c]) = Len(db[c]) + 1
                /\ SubSeq(db'[c], 1, Len(db[c])) = db[c]
                /\ ~HasId(db[c], db'[c][Len(db'[c])]["_id"])
                /\ \A o \in Collections \ {c} : db'[o] = db[o]
           ELSE Records(db') = Records(db)]_vars

\* an update that succeeded was served a second time in succession, and
\* succeeded again
C11_Witness ==
    /\ retried
    /\ req.route = "patch"
    /\ Succeeded

---------------------------------------------------------------------------
(* Creation *)

\* the identifiers of the documents of collection c
Ids(c) == [i \in 1..Len(c) |-> c[i]["_id"]]

\* no two documents of a collection have the same identifier
DistinctIds ==
    \A c \in Collections :
        \A i, j \in 1..Len(db[c]) : db[c][i]["_id"] = db[c][j]["_id"] => i = j

\* the step serves a create that succeeds
Creates == req'.route = "post" /\ written' # <<>> /\ written'[1].status = StatusCreated

\* the step adds exactly one document to the collection of the request,
\* under an identifier no document of it had, returns that identifier, and
\* leaves every other document alone
AddsOne ==
    LET c == req'.res
        e == written'[1].data
        n == Len(db[c])
    IN  /\ Len(db'[c]) = n + 1
        /\ SubSeq(db'[c], 1, n) = db[c]
        /\ e.Id # NoId
        /\ db'[c][n + 1]["_id"] = e.Id
        /\ ~HasId(db[c], e.Id)
        /\ \A o \in Collections \ {c} : db'[o] = db[o]

\* C12 as stated: a successful create adds exactly one record under a fresh
\* identifier, which it returns, and stamps the creation and the update
\* timestamp of the record with one instant, the instant of the creation;
\* the identifiers of a collection are pairwise distinct at all times.
C12_FreshCreate ==
    /\ []DistinctIds
    /\ [][Creates =>
            LET d == db'[req'.res][Len(db'[req'.res])] IN
            /\ AddsOne
            /\ Timestamps \subseteq DOMAIN d
            /\ d["createdat"] = d["updatedat"]
            /\ now <= d["createdat"]
            /\ d["createdat"] <= now']_vars

\* C12, what the code guarantees: as above, but the two timestamps are two
\* readings of the clock taken one after the other while the create is
\* served, the creation timestamp not after the update timestamp; a record
\* type without timestamp fields (an office) is stored without timestamps.
C12_FreshCreateTwoReadings ==
    /\ []DistinctIds
    /\ [][Creates =>
            LET d == db'[req'.res][Len(db'[req'.res])] IN
            /\ AddsOne
            /\ IF HasTimestamps(TypeOf(req'.res))
               THEN /\ Timestamps \subseteq DOMAIN d
                    /\ d["createdat"] = req'.clock[1]
                    /\ d["updatedat"] = req'.clock[2]
                    /\ now <= d["createdat"]
                    /\ d["createdat"] <= d["updatedat"]
                    /\ d["updatedat"] <= now'
                    /\ written'[1].data.CreatedAt = d["createdat"]
                    /\ written'[1].data.UpdatedAt = d["updatedat"]
               ELSE Timestamps \cap DOMAIN d = {}]_vars

\* a venue was created while another was stored, and its two timestamps differ
C12_Witness ==
    /\ req.route = "post"
    /\ req.res = "venues"
    /\ Succeeded
    /\ Len(db["venues"]) = 2
    /\ db["venues"][2]["_id"] = written[1].data.Id
    /\ db["venues"][2]["createdat"] < db["venues"][2]["updatedat"]

---------------------------------------------------------------------------
(* Update *)

\* the step serves an update that succeeds
Updates == req'.route = "patch" /\ written' # <<>> /\ written'[1].status = StatusAccepted

\* the value a request body carries for a field: the zero value when the
\* body does not name the field
Carried(body, f) == IF f.json \in DOMAIN body THEN body[f.json].v ELSE Zero(f.kind)

\* C13: after a successful update the record stored under the path
\* identifier has every field but the identifier and the update timestamp
\* equal to the value the body carries (the zero value for a field the body
\* leaves out, the creation timestamp included), its update timestamp is
\* the instant read while the update was served, and it has no other field.
C13_FullReplace ==
    [][Updates =>
        LET c == req'.res
            T == TypeOf(c)
            id == ObjectIdHex(req'.id)
        IN  /\ HasId(db[c], id)
            /\ HasId(db'[c], id)
            /\ LET d == db'[c][IndexOfId(db'[c], id)] IN
               /\ DOMAIN d = {T[i].bson : i \in 1..Len(T)}
               /\ \A i \in 1..Len(T) :
                    CASE T[i].go = "Id" -> d[T[i].bson] = id
                      [] T[i].go = "UpdatedAt" ->
                            /\ d[T[i].bson] = req'.clock[1]
                            /\ now <= d[T[i].bson]
                            /\ d[T[i].bson] <= now'
                      [] OTHER -> d[T[i].bson] = Carried(req'.body, T[i])]_vars

\* an appointment was updated with a body that names no creation timestamp
\* and fewer guests than it had, and is stored with the zero creation
\* timestamp and the body's guests
C13_Witness ==
    /\ req.route = "patch"
    /\ req.res = "appointments"
    /\ Succeeded
    /\ "created_at" \notin DOMAIN req.body
    /\ LET d == db["appointments"][IndexOfId(db["appointments"], ObjectIdHex(req.id))] IN
       /\ d["createdat"] = ZeroTime
       /\ d["guestids"] = <<>>
       /\ d["updatedat"] > 0

---------------------------------------------------------------------------
(* Updates side by side *)

\* the goroutines whose write to the record id succeeded, in order
WritesTo(id) == SelectSeq(writes, LAMBDA g : inflight[g].val.Id = id)

\* the document an update with this body leaves under identifier id: the
\* values the body carries, and the instant t as update timestamp
Replacement(body, id, t) ==
    [k \in {Appointment[i].bson : i \in 1..Len(Appointment)} |->
        LET f == Appointment[CHOOSE i \in 1..Len(Appointment) : Appointment[i].bson = k] IN
        CASE f.go = "Id" -> id
          [] f.go = "UpdatedAt" -> t
          [] OTHER -> Carried(body, f)]

\* the request of goroutine g is an update of a record that was stored when
\* it came in, passed the middlewares, and met no failure of the store
Sound(g) ==
    /\ inflight[g].pc = "done"
    /\ inflight[g].existed
    /\ ~Decode(inflight[g].body, Appointment).err
    /\ ~inflight[g].failed

\* C14: two updates of one stored appointment, served side by side: in every
\* interleaving both are answered as successful, and the record stored in
\* the end is, as a whole, the one the request that wrote last carries,
\* never a mixture of the two; at every moment the record is the one of
\* the write made last.
C14_LastWriteWins ==
    /\ \A g \in Goroutines :
            Sound(g) => (Len(inflight[g].w) = 1 /\ inflight[g].w[1].status = StatusAccepted)
    /\ \A id \in {NewObjectId(n) : n \in 1..MaxId} :
            WritesTo(id) # <<>> =>
                LET last == inflight[WritesTo(id)[Len(WritesTo(id))]] IN
                /\ HasId(db["appointments"], id)
                /\ db["appointments"][IndexOfId(db["appointments"], id)]
                        = Replacement(last.body, id, last.t)

\* both goroutines updated the stored appointment with different bodies;
\* the one that read the clock first wrote last, and its record is stored
C14_Witness ==
    /\ \A g \in Goroutines : Sound(g) /\ inflight[g].id = NewObjectId(1)
    /\ inflight["a"].body # inflight["b"].body
    /\ inflight["a"].t < inflight["b"].t
    /\ writes = <<"b", "a">>
    /\ db["appointments"][1] = Replacement(inflight["a"].body, NewObjectId(1), inflight["a"].t)

---------------------------------------------------------------------------
(* The request pipeline *)

\* the first gate the request fails: the Accept header, then for a create or
\* an update the Content-Type header, then the decoding of the body
FirstGateFailed(r) ==
    IF r.accept # ApiJson THEN "accept"
    ELSE IF r.route \in {"post", "patch"} /\ r.ctype # ApiJson THEN "content-type"
    ELSE IF r.route \in {"post", "patch"} /\ r.bodyErr THEN "body"
    ELSE "none"

\* the one response a request gets that fails at a gate
GateResponse(gate) ==
    CASE gate = "accept" -> <<[status |-> 406, error |-> "not_acceptable"]>>
      [] gate = "content-type" -> <<[status |-> 415, error |-> "unsupported_media_type"]>>
      [] gate = "body" -> <<[status |-> 400, error |-> "bad_request"]>>

\* C15: a request that fails a gate is answered with the one error of the
\* first gate it fails (Accept, then Content-Type, then the body), issues no
\* store operation and leaves the store unchanged; store operations are
\* issued only by requests that passed every gate.
C15_GatesInOrder ==
    /\ [](req.route # "none" /\ FirstGateFailed(req) # "none"
            => (written = GateResponse(FirstGateFailed(req)) /\ storeOps = <<>>))
    /\ [](storeOps # <<>> => FirstGateFailed(req) = "none")
    /\ [][FirstGateFailed(req') # "none" => db' = db]_vars

\* an update of a stored venue came with the wrong Accept header and the
\* wrong Content-Type, and was answered not-acceptable
C15_Witness ==
    /\ req.route = "patch"
    /\ req.accept # ApiJson
    /\ req.ctype # ApiJson
    /\ IsObjectIdHex(req.id)
    /\ HasId(db["venues"], ObjectIdHex(req.id))
    /\ written = <<[status |-> 406, error |-> "not_acceptable"]>>

---------------------------------------------------------------------------
(* Frame *)

\* the documents of collection c whose identifier is not id, in order
Others(c, id) == SelectSeq(c, LAMBDA d : d["_id"] # id)

\* C16: an update or a delete changes at most the record of its collection
\* whose identifier is the one of the path, whatever identifier the body
\* carries: every other record of the collection and every other collection
\* stay as they were, an update leaves the identifiers of the collection as
\* they were, a delete removes at most the identifier of the path; a list,
\* a find or a search changes nothing.
C16_Frame ==
    [][/\ req'.route \in {"get", "list", "roomsOf", "search"} => db' = db
       /\ req'.route \in {"patch", "delete"} =>
            LET c == req'.res IN
            /\ \A o \in Collections \ {c} : db'[o] = db[o]
            /\ IF ~IsObjectIdHex(req'.id) THEN db' = db
               ELSE LET id == ObjectIdHex(req'.id) IN
                    /\ Others(db'[c], id) = Others(db[c], id)
                    /\ req'.route = "patch" => Ids(db'[c]) = Ids(db[c])
                    /\ req'.route = "delete" => Ids(db'[c]) \in {Ids(db[c]), Ids(Others(db[c], id))}
      ]_vars

\* the second venue was updated with a body that carries the identifier of
\* the first; both are stored, the first under the name it had, the second
\* under the name of the body
C16_Witness ==
    /\ req.route = "patch"
    /\ req.res = "venues"
    /\ Succeeded
    /\ req.id = NewObjectId(2)
    /\ "id" \in DOMAIN req.body
    /\ req.body["id"].v = NewObjectId(1)
    /\ Len(db["venues"]) = 2
    /\ db["venues"][1]["_id"] = NewObjectId(1)
    /\ db["venues"][1]["name"] # req.body["name"].v
    /\ db["venues"][2]["name"] = req.body["name"].v

====
